---- MODULE Spec2Model ----
(***************************************************************************)
(* Relay client core of client/src/native.rs: the NativeClient facade, the *)
(* EventLoop, the server channel state and the peer registry, the bounded  *)
(* outbound and decoded-message queues and the event stream.               *)
(***************************************************************************)
EXTENDS Integers, Sequences, FiniteSets, TLC

\* ------------------------------------------------------------------ bounds
\* Inputs handed to the client in one run: facade calls started plus frames
\* the transport delivers.
MaxInputs == 3
\* Capacity of the outbound queue (mpsc::channel(32) in the source, scaled).
OutboundCap == 2
\* Capacity of the decoded-message queue (mpsc::channel(32), scaled).
MessageCap == 2

\* ------------------------------------------------------- program constants
\* Noise AEAD tag length, imported from the protocol crate.
TAGLEN == 16

\* ------------------------------------------------------------- input sets
Keys == {"k1", "k2"}
NoKey == "-"
Tasks == {"t1", "t2"}
LoopId == "loop"
Free == "free"
\* Plaintexts handed to send / send_blob / broadcast.
Payloads == {<<>>, <<7>>}
NoSession == 0
SomeSession == 1
SessionIds == {NoSession, SomeSession}
Encodings == {"Noop", "Blob", "Json"}

\* ServerMessage variants the facade sends ...
ClientServerMessages ==
    {"NewSession", "SessionReadyNotify", "SessionActiveNotify",
     "SessionConnection", "CloseSession"}
\* ... and those the server sends; "Other" is any variant the dispatch
\* table does not name, "Undecodable" a plaintext decode() rejects.
SessionEvents ==
    {"SessionCreated", "SessionReady", "SessionActive", "SessionFinished"}
InboundServerMessages ==
    SessionEvents \cup {"Error", "Other", "Undecodable"}

\* ---------------------------------------------------------------- envelopes
\* SealedEnvelope { length, encoding, payload, broadcast }.  buf is
\* payload.len(); sess/nonce/plain/msg describe the ciphertext: the Noise
\* session and counter it was sealed under and what it seals.  mac says
\* whether the receiver's cipher authenticates it.
Envelope(length, buf, encoding, broadcast, sess, nonce, plain, msg, mac) ==
    [length |-> length, buf |-> buf, encoding |-> encoding,
     broadcast |-> broadcast, sess |-> sess, nonce |-> nonce,
     plain |-> plain, msg |-> msg, mac |-> mac]

NoEnvelope == Envelope(0, 0, "Noop", FALSE, 0, 0, <<>>, "-", FALSE)

\* RequestMessage (outbound).
RequestMessage(type, key, session, env) ==
    [type |-> type, key |-> key, session |-> session, env |-> env]

NoRequest == RequestMessage("-", NoKey, NoSession, NoEnvelope)

\* ResponseMessage (inbound); blob is the handshake (len, buf) pair: "good"
\* (the Noise message the handshake expects), "bad" (one Noise rejects) or
\* "overlen" (len > buf.len()).  Also the two kinds of frame that never become
\* one: a non-binary frame ("Text") and a binary frame decode() rejects
\* ("Garbage").
ResponseMessage(type, key, session, blob, env) ==
    [type |-> type, key |-> key, session |-> session, blob |-> blob,
     env |-> env]

NoResponse == ResponseMessage("-", NoKey, NoSession, "-", NoEnvelope)

\* Items of the event stream: Ok(Event) or Err(Error).  data is the error
\* name, the server key or the session payload; contents and session are
\* the fields of BinaryMessage / JsonMessage.
Item(kind, key, data, contents, session) ==
    [kind |-> kind, key |-> key, data |-> data, contents |-> contents,
     session |-> session]
Err(name) == Item("Err", NoKey, name, <<>>, NoSession)
Event(kind, key, data) == Item(kind, key, data, <<>>, NoSession)
NoItem == Item("-", NoKey, "-", <<>>, NoSession)
\* options.server_public_key
ServerPublicKey == "server_public_key"

\* ------------------------------------------------------------ ProtocolState
\* state: "None" (no entry / Option::None), "Handshake", "Transport".
\* written: the Noise initiator has written its first message (so it is its
\* turn to read).  sess: which Noise session of this channel; nonce: the
\* sending counter of the transport cipher.
ProtocolState(state, written, sess, nonce) ==
    [state |-> state, written |-> written, sess |-> sess, nonce |-> nonce]

Absent == ProtocolState("None", FALSE, 0, 0)


\* ------------------------------------------------- Noise and the channels
\* The buffer a Noise read fills: the plaintext at the front of a buffer of
\* `size` bytes, the rest left zero.
RECURSIVE Zeros(_)
Zeros(n) == IF n <= 0 THEN <<>> ELSE <<0>> \o Zeros(n - 1)

Filled(plain, size) ==
    IF Len(plain) >= size THEN SubSeq(plain, 1, size)
    ELSE plain \o Zeros(size - Len(plain))

\* contents.truncate(new_length)
Truncate(buffer, n) ==
    IF n >= Len(buffer) THEN buffer ELSE SubSeq(buffer, 1, n)

\* encrypt_peer_channel without its match on the state: a Handshake entry
\* is written to as if it were a transport.
encrypt_peer_channel_AnyState(public_key, peer, payload, encoding, broadcast, session_id) ==
    LET contents == Zeros(Len(payload) + TAGLEN)
        length == Len(payload) + TAGLEN
    IN [ok |-> TRUE, err |-> "-",
        request |-> RequestMessage("PeerMessage", public_key, session_id,
            Envelope(length, Len(contents), encoding, broadcast,
                     peer.sess, peer.nonce, payload, "-", TRUE)),
        peer |-> [peer EXCEPT !.nonce = @ + 1]]

\* encrypt_peer_channel sizing its buffer vec![0; payload.len()], with no
\* room for the tag, and reporting that size as the length.
encrypt_peer_channel_NoTagRoom(public_key, peer, payload, encoding, broadcast, session_id) ==
    IF peer.state = "Transport"
    THEN LET contents == Zeros(Len(payload))
             length == Len(payload)
         IN [ok |-> TRUE, err |-> "-",
             request |-> RequestMessage("PeerMessage", public_key,
                 session_id,
                 Envelope(length, Len(contents), encoding, broadcast,
                          peer.sess, peer.nonce, payload, "-", TRUE)),
             peer |-> [peer EXCEPT !.nonce = @ + 1]]
    ELSE [ok |-> FALSE, err |-> "NotTransportState",
          request |-> NoRequest, peer |-> peer]

\* encrypt_peer_channel: the result of the call and the peer state after it.
encrypt_peer_channel(public_key, peer, payload, encoding, broadcast, session_id) ==
    IF peer.state = "Transport"
    THEN LET contents == Zeros(Len(payload) + TAGLEN)
             length == Len(payload) + TAGLEN
         IN [ok |-> TRUE, err |-> "-",
             request |-> RequestMessage("PeerMessage", public_key,
                 session_id,
                 Envelope(length, Len(contents), encoding, broadcast,
                          peer.sess, peer.nonce, payload, "-", TRUE)),
             peer |-> [peer EXCEPT !.nonce = @ + 1]]
    ELSE [ok |-> FALSE, err |-> "NotTransportState",
          request |-> NoRequest, peer |-> peer]

\* decrypt_peer_channel without its match on the state: any entry of the
\* registry decrypts.
decrypt_peer_channel_AnyState(peer, envelope) ==
    IF envelope.length > envelope.buf
    THEN [res |-> "panic", err |-> "-", contents |-> <<>>]
    ELSE IF envelope.length < TAGLEN \/ ~envelope.mac
    THEN [res |-> "err", err |-> "Noise", contents |-> <<>>]
    ELSE LET contents == Filled(envelope.plain, envelope.length)
             new_length == Len(contents) - TAGLEN
         IN [res |-> "ok", err |-> "-",
             contents |-> Truncate(contents, new_length)]

\* decrypt_peer_channel: "ok" with the contents, "err" with the error, or
\* "panic" when &envelope.payload[..envelope.length] is out of range.
decrypt_peer_channel(peer, envelope) ==
    IF peer.state = "Transport"
    THEN IF envelope.length > envelope.buf
         THEN [res |-> "panic", err |-> "-", contents |-> <<>>]
         ELSE IF envelope.length < TAGLEN \/ ~envelope.mac
         THEN [res |-> "err", err |-> "Noise", contents |-> <<>>]
         ELSE LET contents == Filled(envelope.plain, envelope.length)
                  new_length == Len(contents) - TAGLEN
              IN [res |-> "ok", err |-> "-",
                  contents |-> Truncate(contents, new_length)]
    ELSE [res |-> "err", err |-> "NotTransportState", contents |-> <<>>]

\* encrypt_server_channel of the protocol crate.
encrypt_server_channel(server_state, message, broadcast) ==
    IF server_state.state = "Transport"
    THEN [ok |-> TRUE, err |-> "-",
          envelope |-> Envelope(1 + TAGLEN, 1 + TAGLEN, "Blob", broadcast,
                   server_state.sess, server_state.nonce, <<>>, message,
                   TRUE),
          state |-> [server_state EXCEPT !.nonce = @ + 1]]
    ELSE [ok |-> FALSE, err |-> "NotTransportState",
          envelope |-> NoEnvelope, state |-> server_state]

\* decrypt_server_channel of the protocol crate: (encoding, contents).
decrypt_server_channel(server_state, envelope) ==
    IF server_state.state = "Transport"
    THEN IF envelope.length > envelope.buf
         THEN [res |-> "panic", err |-> "-"]
         ELSE IF envelope.length < TAGLEN \/ ~envelope.mac
         THEN [res |-> "err", err |-> "Noise"]
         ELSE [res |-> "ok", err |-> "-"]
    ELSE [res |-> "err", err |-> "NotTransportState"]


\* ------------------------------------------------- event-loop handlers
\* Each handler is given the state it locks and returns that state after
\* the call with how the call ended: res is "event" (Ok(Some(item))),
\* "none" (Ok(None)), "error" (Err(item)), "panic", or "send" (the
\* handler goes on to enqueue `request` and then returns the event).

\* server_handshake storing Transport before it has read the reply: a reply
\* Noise rejects leaves the channel in Transport with no event.
server_handshake_StoreBeforeRead(state, blob) ==
    IF state.state = "Handshake"
    THEN IF blob = "overlen"
         THEN [state |-> Absent, res |-> "panic", item |-> NoItem]
         ELSE IF blob = "good" /\ state.written
         THEN [state |-> ProtocolState("Transport", TRUE, state.sess, 0),
               res |-> "event",
               item |-> Event("ServerConnected", ServerPublicKey, "-")]
         ELSE [state |-> ProtocolState("Transport", TRUE, state.sess, 0),
               res |-> "error", item |-> Err("Noise")]
    ELSE [state |-> Absent, res |-> "error",
          item |-> Err("NotHandshakeState")]

\* server_handshake matching Some(_): a Responder that finds the channel in
\* Transport is answered with ServerConnected again.
server_handshake_AcceptsAgain(state, blob) ==
    IF state.state = "Handshake"
    THEN IF blob = "overlen"
         THEN [state |-> Absent, res |-> "panic", item |-> NoItem]
         ELSE IF blob = "good" /\ state.written
         THEN [state |-> ProtocolState("Transport", TRUE, state.sess, 0),
               res |-> "event",
               item |-> Event("ServerConnected", ServerPublicKey, "-")]
         ELSE [state |-> Absent, res |-> "error", item |-> Err("Noise")]
    ELSE IF state.state = "Transport"
    THEN [state |-> state, res |-> "event",
          item |-> Event("ServerConnected", ServerPublicKey, "-")]
    ELSE [state |-> Absent, res |-> "error",
          item |-> Err("NotHandshakeState")]

\* server_handshake: state.take() empties the Option before the match.
server_handshake(state, blob) ==
    IF state.state = "Handshake"
    THEN IF blob = "overlen"
         THEN [state |-> Absent, res |-> "panic", item |-> NoItem]
         ELSE IF blob = "good" /\ state.written
         THEN [state |-> ProtocolState("Transport", TRUE, state.sess, 0),
               res |-> "event",
               item |-> Event("ServerConnected", ServerPublicKey, "-")]
         ELSE [state |-> Absent, res |-> "error", item |-> Err("Noise")]
    ELSE [state |-> Absent, res |-> "error",
          item |-> Err("NotHandshakeState")]

\* peer_handshake_responder without the lookup: the responder's state is
\* inserted over whatever the registry holds.
peer_handshake_responder_Overwrites(ps, public_key, blob, sess) ==
    IF blob = "overlen"
    THEN [peers |-> ps, res |-> "panic", item |-> NoItem,
          request |-> NoRequest]
    ELSE IF blob = "bad"
    THEN [peers |-> ps, res |-> "error", item |-> Err("Noise"),
          request |-> NoRequest]
    ELSE [peers |-> [ps EXCEPT ![public_key] =
                        ProtocolState("Transport", TRUE, sess, 0)],
          res |-> "send",
          item |-> Event("PeerConnected", public_key, "-"),
          request |-> RequestMessage("PeerHandshakeResponder", public_key,
                                     NoSession, NoEnvelope)]

\* peer_handshake_responder, up to the point where it enqueues the reply.
\* sess is the Noise session a responder built here would start.
peer_handshake_responder(ps, public_key, blob, sess) ==
    IF ps[public_key].state # "None"
    THEN [peers |-> ps, res |-> "error",
          item |-> Err("PeerAlreadyExistsMaybeRace"), request |-> NoRequest]
    ELSE IF blob = "overlen"
    THEN [peers |-> ps, res |-> "panic", item |-> NoItem,
          request |-> NoRequest]
    ELSE IF blob = "bad"
    THEN [peers |-> ps, res |-> "error", item |-> Err("Noise"),
          request |-> NoRequest]
    ELSE [peers |-> [ps EXCEPT ![public_key] =
                        ProtocolState("Transport", TRUE, sess, 0)],
          res |-> "send",
          item |-> Event("PeerConnected", public_key, "-"),
          request |-> RequestMessage("PeerHandshakeResponder", public_key,
                                     NoSession, NoEnvelope)]

\* peer_handshake_ack clearing the registry (peers.clear()) where it removes
\* the one entry.
peer_handshake_ack_ClearsRegistry(ps, public_key, blob) ==
    LET peer == ps[public_key]
        removed == [k \in Keys |-> Absent]
    IN IF peer.state = "None"
       THEN [peers |-> ps, res |-> "error", item |-> Err("PeerNotFound")]
       ELSE IF peer.state = "Handshake"
       THEN IF blob = "overlen"
            THEN [peers |-> removed, res |-> "panic", item |-> NoItem]
            ELSE IF blob = "good" /\ peer.written
            THEN [peers |-> [ps EXCEPT ![public_key] =
                       ProtocolState("Transport", TRUE, peer.sess, 0)],
                  res |-> "event",
                  item |-> Event("PeerConnected", public_key, "-")]
            ELSE [peers |-> removed, res |-> "error",
                  item |-> Err("Noise")]
       ELSE [peers |-> removed, res |-> "error",
             item |-> Err("NotHandshakeState")]

\* peer_handshake_ack: peers.remove() takes the entry out before the match.
peer_handshake_ack(ps, public_key, blob) ==
    LET peer == ps[public_key]
        removed == [ps EXCEPT ![public_key] = Absent]
    IN IF peer.state = "None"
       THEN [peers |-> ps, res |-> "error", item |-> Err("PeerNotFound")]
       ELSE IF peer.state = "Handshake"
       THEN IF blob = "overlen"
            THEN [peers |-> removed, res |-> "panic", item |-> NoItem]
            ELSE IF blob = "good" /\ peer.written
            THEN [peers |-> [ps EXCEPT ![public_key] =
                       ProtocolState("Transport", TRUE, peer.sess, 0)],
                  res |-> "event",
                  item |-> Event("PeerConnected", public_key, "-")]
            ELSE [peers |-> removed, res |-> "error",
                  item |-> Err("Noise")]
       ELSE [peers |-> removed, res |-> "error",
             item |-> Err("NotHandshakeState")]

\* handle_relayed_message
handle_relayed_message(ps, public_key, envelope, session_id) ==
    IF ps[public_key].state # "None"
    THEN LET d == decrypt_peer_channel(ps[public_key], envelope)
         IN IF d.res = "panic"
            THEN [peers |-> ps, res |-> "panic", item |-> NoItem]
            ELSE IF d.res = "err"
            THEN [peers |-> ps, res |-> "error", item |-> Err(d.err)]
            ELSE IF envelope.encoding = "Noop"
            THEN [peers |-> ps, res |-> "panic", item |-> NoItem]
            ELSE IF envelope.encoding = "Blob"
            THEN [peers |-> ps, res |-> "event",
                  item |-> Item("BinaryMessage", public_key, "-",
                                d.contents, session_id)]
            ELSE [peers |-> ps, res |-> "event",
                  item |-> Item("JsonMessage", public_key, "-",
                                d.contents, session_id)]
    ELSE [peers |-> ps, res |-> "error", item |-> Err("PeerNotFound")]

\* handle_server_channel_message with ServerMessage::Error falling through
\* to the catch-all arm: Ok(None).
handle_server_channel_message_ErrorIsDropped(message, session_id) ==
    IF message \in SessionEvents
    THEN [res |-> "event",
          item |-> Item(message, NoKey, "-", <<>>, session_id)]
    ELSE [res |-> "none", item |-> NoItem]

\* handle_server_channel_message; session_id stands for the payload the
\* ServerMessage carries.
handle_server_channel_message(message, session_id) ==
    IF message = "Error"
    THEN [res |-> "error", item |-> Err("ServerError")]
    ELSE IF message \in SessionEvents
    THEN [res |-> "event",
          item |-> Item(message, NoKey, "-", <<>>, session_id)]
    ELSE [res |-> "none", item |-> NoItem]

\* The Opaque ServerMessage arm of handle_incoming_message.
handle_server_message(state, envelope, session_id) ==
    IF state.state = "None"
    THEN [res |-> "panic", item |-> NoItem]
    ELSE LET d == decrypt_server_channel(state, envelope)
         IN IF d.res = "panic"
            THEN [res |-> "panic", item |-> NoItem]
            ELSE IF d.res = "err"
            THEN [res |-> "error", item |-> Err(d.err)]
            ELSE IF envelope.encoding # "Blob"
            THEN [res |-> "panic", item |-> NoItem]
            ELSE IF envelope.msg = "Undecodable"
            THEN [res |-> "error", item |-> Err("Codec")]
            ELSE handle_server_channel_message(envelope.msg, session_id)


\* ------------------------------------------------------------------ state
VARIABLES
    server,     \* Arc<RwLock<Option<ProtocolState>>>
    peers,      \* Arc<RwLock<HashMap<Vec<u8>, ProtocolState>>>
    peersLock,  \* who holds the write lock of peers: Free, a task, LoopId
    sessions,   \* per key, how many Noise sessions have been built
    outbound,   \* outbound_tx / outbound_rx
    written,    \* what send_message has written to ws_writer, in order
    messages,   \* message_tx / message_rx
    stream,     \* the items the event stream has yielded, in order
    loop,       \* where EventLoop::run is: pc, the message and request held
    task,       \* per facade task: pc, the request held, broadcast state,
                \* the result of its last call
    nCalls,     \* facade calls started
    nFrames,    \* frames read from ws_reader
    ws_reader   \* the read half of the transport: "open", or "ended" once
                \* ws_reader.next() has returned None

vars == <<server, peers, peersLock, sessions, outbound, written, messages,
          stream, loop, task, nCalls, nFrames, ws_reader>>

LoopState(pc, msg, req, item) ==
    [pc |-> pc, msg |-> msg, req |-> req, item |-> item]

LoopSelect == LoopState("select", NoResponse, NoRequest, NoItem)
LoopAborted == LoopState("aborted", NoResponse, NoRequest, NoItem)

\* bc: the payload, encoding, session and recipient list of a broadcast in
\* progress, with the requests the call has put on the outbound queue so
\* far; rest: its recipients still to be relayed to.
NoBroadcast ==
    [payload |-> <<>>, encoding |-> "Noop", session |-> NoSession,
     recipients |-> <<>>, enqueued |-> <<>>]
TaskState(pc, req, rest, bc, result) ==
    [pc |-> pc, req |-> req, rest |-> rest, bc |-> bc, result |-> result]

TaskIdle(result) == TaskState("idle", NoRequest, <<>>, NoBroadcast, result)
TaskAborted == TaskState("aborted", NoRequest, <<>>, NoBroadcast, "panic")

\* NativeClient::new: the server channel holds a fresh Noise initiator, the
\* registry and both queues are empty.
Init ==
    /\ server = ProtocolState("Handshake", FALSE, 1, 0)
    /\ peers = [k \in Keys |-> Absent]
    /\ peersLock = Free
    /\ sessions = [k \in Keys |-> 0]
    /\ outbound = <<>>
    /\ written = <<>>
    /\ messages = <<>>
    /\ stream = <<>>
    /\ loop = LoopSelect
    /\ task = [t \in Tasks |-> TaskIdle("-")]
    /\ nCalls = 0
    /\ nFrames = 0
    /\ ws_reader = "open"

\* ------------------------------------------------------------------ facade
CallStart(t) ==
    /\ task[t].pc = "idle"
    /\ nCalls + nFrames < MaxInputs
    /\ nCalls' = nCalls + 1

Return(t, result) == task' = [task EXCEPT ![t] = TaskIdle(result)]

\* The caller is parked on outbound_tx.send(request).
AwaitSend(t, request, rest, bc) ==
    task' = [task EXCEPT ![t] = TaskState("send", request, rest, bc, "-")]

\* connect writing a first message whenever the channel is in Handshake,
\* whether or not one was written before.
connect_WritesAgain(t) ==
    /\ CallStart(t)
    /\ IF server.state = "Handshake"
       THEN /\ server' = [server EXCEPT !.written = TRUE]
            /\ AwaitSend(t, RequestMessage("ServerHandshakeInitiator",
                   NoKey, NoSession, NoEnvelope), <<>>, NoBroadcast)
       ELSE /\ Return(t, "NotHandshakeState")
            /\ UNCHANGED server
    /\ UNCHANGED <<peers, peersLock, sessions, outbound, written, messages,
                   stream, loop, nFrames, ws_reader>>

\* NativeClient::connect
connect(t) ==
    /\ CallStart(t)
    /\ IF server.state = "Handshake"
       THEN IF ~server.written
            THEN /\ server' = [server EXCEPT !.written = TRUE]
                 /\ AwaitSend(t, RequestMessage("ServerHandshakeInitiator",
                        NoKey, NoSession, NoEnvelope), <<>>, NoBroadcast)
            ELSE /\ Return(t, "Noise")
                 /\ UNCHANGED server
       ELSE /\ Return(t, "NotHandshakeState")
            /\ UNCHANGED server
    /\ UNCHANGED <<peers, peersLock, sessions, outbound, written, messages,
                   stream, loop, nFrames, ws_reader>>

\* NativeClient::connect_peer
connect_peer(t, public_key) ==
    /\ CallStart(t)
    /\ peersLock = Free
    /\ IF peers[public_key].state # "None"
       THEN /\ Return(t, "PeerAlreadyExists")
            /\ UNCHANGED <<peers, sessions>>
       ELSE /\ sessions' = [sessions EXCEPT ![public_key] = @ + 1]
            /\ peers' = [peers EXCEPT ![public_key] =
                   ProtocolState("Handshake", TRUE, sessions'[public_key], 0)]
            /\ AwaitSend(t, RequestMessage("PeerHandshakeInitiator",
                   public_key, NoSession, NoEnvelope), <<>>, NoBroadcast)
    /\ UNCHANGED <<server, peersLock, outbound, written, messages, stream,
                   loop, nFrames, ws_reader>>

\* relay dropping its write guard before outbound_tx.send, as connect_peer
\* does.
relay_DropsGuardFirst(t, public_key, payload, encoding, broadcast, session_id, rest, recipients) ==
    /\ peersLock = Free
    /\ IF peers[public_key].state # "None"
       THEN LET e == encrypt_peer_channel(public_key, peers[public_key],
                         payload, encoding, broadcast, session_id)
            IN IF e.ok
               THEN /\ peers' = [peers EXCEPT ![public_key] = e.peer]
                    /\ AwaitSend(t, e.request, rest,
                           [payload |-> payload, encoding |-> encoding,
                            session |-> session_id,
                            recipients |-> recipients,
                            enqueued |-> task[t].bc.enqueued])
               ELSE /\ Return(t, e.err)
                    /\ UNCHANGED peers
       ELSE /\ Return(t, "PeerNotFound")
            /\ UNCHANGED peers
    /\ UNCHANGED <<server, peersLock, sessions, outbound, written, messages,
                   stream, loop, nFrames, ws_reader>>

\* NativeClient::relay up to outbound_tx.send: the write lock of peers is
\* taken and, when the request was built, still held.
relay(t, public_key, payload, encoding, broadcast, session_id, rest, recipients) ==
    /\ peersLock = Free
    /\ IF peers[public_key].state # "None"
       THEN LET e == encrypt_peer_channel(public_key, peers[public_key],
                         payload, encoding, broadcast, session_id)
            IN IF e.ok
               THEN /\ peers' = [peers EXCEPT ![public_key] = e.peer]
                    /\ peersLock' = t
                    /\ AwaitSend(t, e.request, rest,
                           [payload |-> payload, encoding |-> encoding,
                            session |-> session_id,
                            recipients |-> recipients,
                            enqueued |-> task[t].bc.enqueued])
               ELSE /\ Return(t, e.err)
                    /\ UNCHANGED <<peers, peersLock>>
       ELSE /\ Return(t, "PeerNotFound")
            /\ UNCHANGED <<peers, peersLock>>
    /\ UNCHANGED <<server, sessions, outbound, written, messages, stream,
                   loop, nFrames, ws_reader>>

\* NativeClient::send
send(t, public_key, payload, session_id) ==
    /\ CallStart(t)
    /\ relay(t, public_key, payload, "Json", FALSE, session_id, <<>>, <<>>)

\* NativeClient::send_blob
send_blob(t, public_key, payload, session_id) ==
    /\ CallStart(t)
    /\ relay(t, public_key, payload, "Blob", FALSE, session_id, <<>>, <<>>)

\* relay_broadcast passing broadcast = false to relay, as send does.
relay_broadcast_NotBroadcast(t, session_id, recipient_public_keys, payload, encoding) ==
    /\ CallStart(t)
    /\ IF recipient_public_keys = <<>>
       THEN /\ Return(t, "Ok")
            /\ UNCHANGED <<server, peers, peersLock, sessions, outbound,
                           written, messages, stream, loop, nFrames, ws_reader>>
       ELSE relay(t, Head(recipient_public_keys), payload, encoding, FALSE,
                  session_id, Tail(recipient_public_keys),
                  recipient_public_keys)

\* NativeClient::relay_broadcast, entered: the first recipient's relay, or
\* Ok(()) at once for no recipients.
relay_broadcast(t, session_id, recipient_public_keys, payload, encoding) ==
    /\ CallStart(t)
    /\ IF recipient_public_keys = <<>>
       THEN /\ Return(t, "Ok")
            /\ UNCHANGED <<server, peers, peersLock, sessions, outbound,
                           written, messages, stream, loop, nFrames, ws_reader>>
       ELSE relay(t, Head(recipient_public_keys), payload, encoding, TRUE,
                  session_id, Tail(recipient_public_keys),
                  recipient_public_keys)

\* NativeClient::broadcast
broadcast(t, session_id, recipient_public_keys, payload) ==
    relay_broadcast(t, session_id, recipient_public_keys, payload, "Json")

\* NativeClient::broadcast_blob
broadcast_blob(t, session_id, recipient_public_keys, payload) ==
    relay_broadcast(t, session_id, recipient_public_keys, payload, "Blob")

\* relay_broadcast, the next turn of its for loop.
relay_broadcast_next(t) ==
    /\ task[t].pc = "relay"
    /\ relay(t, Head(task[t].rest), task[t].bc.payload, task[t].bc.encoding,
             TRUE, task[t].bc.session, Tail(task[t].rest),
             task[t].bc.recipients)
    /\ UNCHANGED nCalls

\* NativeClient::request up to outbound_tx.send; the write lock of server
\* is released when the envelope is built.
request(t, message) ==
    /\ CallStart(t)
    /\ IF server.state # "None"
       THEN LET e == encrypt_server_channel(server, message, FALSE)
            IN IF e.ok
               THEN /\ server' = e.state
                    /\ AwaitSend(t, RequestMessage("ServerMessage", NoKey,
                           NoSession, e.envelope), <<>>, NoBroadcast)
               ELSE /\ Return(t, e.err)
                    /\ UNCHANGED server
       ELSE \* envelope is None: unreachable!()
            /\ task' = [task EXCEPT ![t] = TaskAborted]
            /\ UNCHANGED server
    /\ UNCHANGED <<peers, peersLock, sessions, outbound, written, messages,
                   stream, loop, nFrames, ws_reader>>

new_session(t) == request(t, "NewSession")
session_ready_notify(t) == request(t, "SessionReadyNotify")
session_active_notify(t) == request(t, "SessionActiveNotify")
register_session_connection(t) == request(t, "SessionConnection")
close_session(t) == request(t, "CloseSession")

\* outbound_tx.send(request).await completes: there is room in the queue.
\* relay drops its write guard when it returns, after the send.
outbound_send(t) ==
    /\ task[t].pc = "send"
    /\ Len(outbound) < OutboundCap
    /\ outbound' = Append(outbound, task[t].req)
    /\ peersLock' = IF peersLock = t THEN Free ELSE peersLock
    /\ IF task[t].rest # <<>>
       THEN task' = [task EXCEPT ![t] =
                TaskState("relay", NoRequest, task[t].rest,
                          [task[t].bc EXCEPT
                              !.enqueued = Append(@, task[t].req)], "-")]
       ELSE Return(t, "Ok")
    /\ UNCHANGED <<server, peers, sessions, written, messages, stream,
                   loop, nCalls, nFrames, ws_reader>>


\* -------------------------------------------------------------- event loop
\* How one turn of the select! loop ends: an item is yielded, nothing is,
\* or the handler panicked and the loop is gone.
Yield(res, item) ==
    /\ stream' = IF res \in {"event", "error"} THEN Append(stream, item)
                 ELSE stream
    /\ loop' = IF res = "panic" THEN LoopAborted ELSE LoopSelect

NeedsPeers(m) ==
    m.type \in {"PeerHandshakeInitiator", "PeerHandshakeResponder",
                "PeerMessage"}

\* handle_incoming_message with peer_handshake_responder dropping its write
\* guard once the entry is inserted, before it enqueues the reply.
handle_incoming_message_DropsGuardFirst(incoming) ==
    IF incoming.type = "ServerHandshakeResponder"
    THEN LET r == server_handshake(server, incoming.blob)
         IN /\ server' = r.state
            /\ Yield(r.res, r.item)
            /\ UNCHANGED <<peers, peersLock, sessions>>
    ELSE IF incoming.type = "PeerHandshakeInitiator"
    THEN LET r == peer_handshake_responder(peers, incoming.key,
                      incoming.blob, sessions[incoming.key] + 1)
         IN IF r.res = "send"
            THEN \* parked on self.outbound_tx.send(request), guard dropped
                 /\ peers' = r.peers
                 /\ sessions' = [sessions EXCEPT ![incoming.key] = @ + 1]
                 /\ peersLock' = peersLock
                 /\ loop' = LoopState("responder_send", NoResponse,
                                      r.request, r.item)
                 /\ UNCHANGED <<server, stream>>
            ELSE /\ peers' = r.peers
                 /\ Yield(r.res, r.item)
                 /\ UNCHANGED <<server, peersLock, sessions>>
    ELSE IF incoming.type = "PeerHandshakeResponder"
    THEN LET r == peer_handshake_ack(peers, incoming.key, incoming.blob)
         IN /\ peers' = r.peers
            /\ Yield(r.res, r.item)
            /\ UNCHANGED <<server, peersLock, sessions>>
    ELSE IF incoming.type = "PeerMessage"
    THEN LET r == handle_relayed_message(peers, incoming.key, incoming.env,
                                         incoming.session)
         IN /\ peers' = r.peers
            /\ Yield(r.res, r.item)
            /\ UNCHANGED <<server, peersLock, sessions>>
    ELSE IF incoming.type = "ServerMessage"
    THEN LET r == handle_server_message(server, incoming.env,
                                        incoming.session)
         IN /\ Yield(r.res, r.item)
            /\ UNCHANGED <<server, peers, peersLock, sessions>>
    ELSE \* panic!("unhandled message")
         /\ Yield("panic", NoItem)
         /\ UNCHANGED <<server, peers, peersLock, sessions>>

\* handle_incoming_message, entered with every lock it takes free.
handle_incoming_message(incoming) ==
    IF incoming.type = "ServerHandshakeResponder"
    THEN LET r == server_handshake(server, incoming.blob)
         IN /\ server' = r.state
            /\ Yield(r.res, r.item)
            /\ UNCHANGED <<peers, peersLock, sessions>>
    ELSE IF incoming.type = "PeerHandshakeInitiator"
    THEN LET r == peer_handshake_responder(peers, incoming.key,
                      incoming.blob, sessions[incoming.key] + 1)
         IN IF r.res = "send"
            THEN \* parked on self.outbound_tx.send(request), guard held
                 /\ peers' = r.peers
                 /\ sessions' = [sessions EXCEPT ![incoming.key] = @ + 1]
                 /\ peersLock' = LoopId
                 /\ loop' = LoopState("responder_send", NoResponse,
                                      r.request, r.item)
                 /\ UNCHANGED <<server, stream>>
            ELSE /\ peers' = r.peers
                 /\ Yield(r.res, r.item)
                 /\ UNCHANGED <<server, peersLock, sessions>>
    ELSE IF incoming.type = "PeerHandshakeResponder"
    THEN LET r == peer_handshake_ack(peers, incoming.key, incoming.blob)
         IN /\ peers' = r.peers
            /\ Yield(r.res, r.item)
            /\ UNCHANGED <<server, peersLock, sessions>>
    ELSE IF incoming.type = "PeerMessage"
    THEN LET r == handle_relayed_message(peers, incoming.key, incoming.env,
                                         incoming.session)
         IN /\ peers' = r.peers
            /\ Yield(r.res, r.item)
            /\ UNCHANGED <<server, peersLock, sessions>>
    ELSE IF incoming.type = "ServerMessage"
    THEN LET r == handle_server_message(server, incoming.env,
                                        incoming.session)
         IN /\ Yield(r.res, r.item)
            /\ UNCHANGED <<server, peers, peersLock, sessions>>
    ELSE \* panic!("unhandled message")
         /\ Yield("panic", NoItem)
         /\ UNCHANGED <<server, peers, peersLock, sessions>>

\* select!, ws_reader.next(): read_message decodes the frame and sends it to
\* the decoded-message queue.  With the queue full the loop parks on
\* message_tx.send, which only the loop itself could make room for.
read_message(frame) ==
    /\ loop.pc = "select"
    /\ ws_reader = "open"
    /\ nCalls + nFrames < MaxInputs
    /\ nFrames' = nFrames + 1
    /\ IF frame.type = "Text"
       THEN UNCHANGED <<messages, stream, loop>>
       ELSE IF frame.type \in {"Garbage", "WsError"}
       THEN /\ Yield("error", Err(IF frame.type = "Garbage" THEN "Codec"
                                  ELSE "Transport"))
            /\ UNCHANGED messages
       ELSE IF Len(messages) < MessageCap
       THEN /\ messages' = Append(messages, frame)
            /\ UNCHANGED <<stream, loop>>
       ELSE /\ loop' = LoopState("message_send", frame, NoRequest, NoItem)
            /\ UNCHANGED <<messages, stream>>
    /\ UNCHANGED <<server, peers, peersLock, sessions, outbound, written,
                   task, nCalls, ws_reader>>

\* select!, ws_reader.next() returns None (the transport has closed): the
\* `_ => {}` arm, after which the loop goes round again.  Later polls of the
\* ended reader return None again and change nothing.
reader_end ==
    /\ loop.pc = "select"
    /\ ws_reader = "open"
    /\ ws_reader' = "ended"
    /\ UNCHANGED <<server, peers, peersLock, sessions, outbound, written,
                   messages, stream, loop, task, nCalls, nFrames>>

\* The outbound arm taking the request enqueued last instead of the one at
\* the head of the queue.
send_message_TakesLast(io) ==
    /\ loop.pc = "select"
    /\ outbound # <<>>
    /\ outbound' = SubSeq(outbound, 1, Len(outbound) - 1)
    /\ IF io
       THEN /\ written' = Append(written, outbound[Len(outbound)])
            /\ UNCHANGED <<stream, loop>>
       ELSE /\ Yield("error", Err("Transport"))
            /\ UNCHANGED written
    /\ UNCHANGED <<server, peers, peersLock, sessions, messages, task,
                   nCalls, nFrames, ws_reader>>

\* select!, outbound_rx.recv(): send_message writes and flushes the frame;
\* io is whether the transport took it.
send_message(io) ==
    /\ loop.pc = "select"
    /\ outbound # <<>>
    /\ outbound' = Tail(outbound)
    /\ IF io
       THEN /\ written' = Append(written, Head(outbound))
            /\ UNCHANGED <<stream, loop>>
       ELSE /\ Yield("error", Err("Transport"))
            /\ UNCHANGED written
    /\ UNCHANGED <<server, peers, peersLock, sessions, messages, task,
                   nCalls, nFrames, ws_reader>>

\* select!, message_rx.recv(): the head of the decoded-message queue is
\* dispatched; a handler that needs the registry parks on peers.write()
\* while a facade task holds it.
dispatch ==
    /\ loop.pc = "select"
    /\ messages # <<>>
    /\ messages' = Tail(messages)
    /\ IF NeedsPeers(Head(messages)) /\ peersLock # Free
       THEN /\ loop' = LoopState("peers_write", Head(messages), NoRequest,
                                 NoItem)
            /\ UNCHANGED <<server, peers, peersLock, sessions, stream>>
       ELSE handle_incoming_message(Head(messages))
    /\ UNCHANGED <<outbound, written, task, nCalls, nFrames, ws_reader>>

\* peers.write().await completes for the parked handler.
dispatch_locked ==
    /\ loop.pc = "peers_write"
    /\ peersLock = Free
    /\ handle_incoming_message(loop.msg)
    /\ UNCHANGED <<outbound, written, messages, task, nCalls, nFrames, ws_reader>>

\* peer_handshake_responder, from self.outbound_tx.send(request).await on:
\* the reply is enqueued, the guard dropped, PeerConnected returned.
responder_send ==
    /\ loop.pc = "responder_send"
    /\ Len(outbound) < OutboundCap
    /\ outbound' = Append(outbound, loop.req)
    /\ peersLock' = Free
    /\ Yield("event", loop.item)
    /\ UNCHANGED <<server, peers, sessions, written, messages, task, nCalls,
                   nFrames, ws_reader>>

\* ------------------------------------------------------------------ inputs
HandshakeBlobs == {"good", "bad", "overlen"}

\* An envelope sealing `plain` as the sender's Noise transport makes it.
Sealed(plain, encoding, msg) ==
    Envelope(Len(plain) + TAGLEN, Len(plain) + TAGLEN, encoding, FALSE,
             0, 0, plain, msg, TRUE)

PeerEnvelopes ==
    {Sealed(p, "Blob", "-") : p \in Payloads}
    \cup {Sealed(<<7>>, "Json", "-"), Sealed(<<7>>, "Noop", "-"),
          \* one the cipher rejects
          [Sealed(<<7>>, "Blob", "-") EXCEPT !.mac = FALSE],
          \* payload over-allocated
          [Sealed(<<7>>, "Blob", "-") EXCEPT !.buf = @ + 1],
          \* length beyond the payload buffer
          [Sealed(<<7>>, "Blob", "-") EXCEPT !.length = @ + 1],
          \* length below TAGLEN
          [Sealed(<<>>, "Blob", "-") EXCEPT !.length = TAGLEN - 1]}

ServerEnvelopes ==
    {Sealed(<<>>, "Blob", m) : m \in InboundServerMessages}
    \cup {Sealed(<<>>, "Json", "SessionCreated"),
          [Sealed(<<>>, "Blob", "SessionCreated") EXCEPT !.mac = FALSE],
          [Sealed(<<>>, "Blob", "SessionCreated") EXCEPT !.length = @ + 1]}

ServerFrames ==
    {ResponseMessage("ServerHandshakeResponder", NoKey, NoSession, b,
                     NoEnvelope) : b \in HandshakeBlobs}
    \cup {ResponseMessage("ServerMessage", NoKey, SomeSession, "-", e) :
            e \in ServerEnvelopes}

PeerFrames ==
    {ResponseMessage(ty, k, NoSession, b, NoEnvelope) :
        ty \in {"PeerHandshakeInitiator", "PeerHandshakeResponder"},
        k \in Keys, b \in HandshakeBlobs}
    \cup {ResponseMessage("PeerMessage", k, NoSession, "-", e) :
            k \in Keys, e \in PeerEnvelopes}

\* A ResponseMessage no arm of handle_incoming_message matches, a frame
\* that is not binary, one decode() rejects, a transport read error.
OtherFrames ==
    {ResponseMessage(ty, NoKey, NoSession, "-", NoEnvelope) :
        ty \in {"Unhandled", "Text", "Garbage", "WsError"}}

\* Of these, the two that end a turn of the loop without touching a channel:
\* one in a panic, one in an error item.
LoopFrames == {f \in OtherFrames : f.type \in {"Unhandled", "Garbage"}}

Frames == ServerFrames \cup PeerFrames \cup OtherFrames

Recipients == {<<>>, <<"k1">>, <<"k1", "k2">>, <<"k2", "k1">>}

\* ----------------------------------------------------------- specification
Next ==
    \/ \E t \in Tasks : connect(t)
    \/ \E t \in Tasks, k \in Keys : connect_peer(t, k)
    \/ \E t \in Tasks, k \in Keys, p \in Payloads : send(t, k, p, NoSession)
    \/ \E t \in Tasks, k \in Keys, p \in Payloads :
          send_blob(t, k, p, NoSession)
    \/ \E t \in Tasks, r \in Recipients : broadcast(t, SomeSession, r, <<7>>)
    \/ \E t \in Tasks, r \in Recipients :
          broadcast_blob(t, SomeSession, r, <<7>>)
    \/ \E t \in Tasks : relay_broadcast_next(t)
    \/ \E t \in Tasks : new_session(t)
    \/ \E t \in Tasks : session_ready_notify(t)
    \/ \E t \in Tasks : session_active_notify(t)
    \/ \E t \in Tasks : register_session_connection(t)
    \/ \E t \in Tasks : close_session(t)
    \/ \E t \in Tasks : outbound_send(t)
    \/ \E f \in Frames : read_message(f)
    \/ reader_end
    \/ \E io \in BOOLEAN : send_message(io)
    \/ dispatch
    \/ dispatch_locked
    \/ responder_send

Spec == Init /\ [][Next]_vars


\* The server channel alone: one facade task, the frames that concern the
\* server channel and those that concern no channel.
NextServer ==
    \/ connect("t1")
    \/ new_session("t1")
    \/ session_ready_notify("t1")
    \/ session_active_notify("t1")
    \/ register_session_connection("t1")
    \/ close_session("t1")
    \/ outbound_send("t1")
    \/ \E f \in ServerFrames \cup OtherFrames : read_message(f)
    \/ \E io \in BOOLEAN : send_message(io)
    \/ dispatch

SpecServer == Init /\ [][NextServer]_vars

\* The peer registry: one facade task, the frames that concern peers and
\* those that concern no channel.
NextPeers ==
    \/ \E k \in Keys : connect_peer("t1", k)
    \/ \E k \in Keys : send("t1", k, <<7>>, NoSession)
    \/ \E k \in Keys, p \in Payloads : send_blob("t1", k, p, NoSession)
    \/ outbound_send("t1")
    \/ \E f \in PeerFrames \cup LoopFrames : read_message(f)
    \/ \E io \in BOOLEAN : send_message(io)
    \/ dispatch
    \/ dispatch_locked
    \/ responder_send

SpecPeers == Init /\ [][NextPeers]_vars


\* Two facade tasks (two clones of the client handle) racing on the peer
\* registry, with the frames that complete or break a peer handshake.
HandshakeFrames ==
    {f \in PeerFrames : f.type # "PeerMessage" /\ f.blob # "overlen"}

NextOrder ==
    \/ \E t \in Tasks, k \in Keys : connect_peer(t, k)
    \/ \E t \in Tasks, k \in Keys : send(t, k, <<7>>, NoSession)
    \/ \E t \in Tasks, k \in Keys, p \in Payloads :
          send_blob(t, k, p, NoSession)
    \/ \E t \in Tasks : outbound_send(t)
    \/ \E f \in HandshakeFrames : read_message(f)
    \/ \E io \in BOOLEAN : send_message(io)
    \/ dispatch
    \/ dispatch_locked
    \/ responder_send

SpecOrder == Init /\ [][NextOrder]_vars

\* ------------------------------------------------------------ vocabulary
\* This step ran handle_incoming_message on m: the loop took m from the
\* decoded-message queue with the registry free, or got the registry after
\* waiting for it with m in hand.
Dispatched(m) ==
    \/ /\ loop.pc = "select"
       /\ messages # <<>>
       /\ Head(messages) = m
       /\ messages' = Tail(messages)
       /\ loop'.pc # "peers_write"
    \/ /\ loop.pc = "peers_write"
       /\ loop.msg = m
       /\ loop' # loop

\* The requests that were put on the outbound queue and not lost to a
\* failed transport write, in queue order.
Sent == written \o outbound

Emitted(kind) == {i \in DOMAIN stream : stream[i].kind = kind}


\* ------------------------------------------------------------------ claims

\* C1: once a channel's ProtocolState is Transport it is Transport in every
\* later state, for the server channel and for every registry entry.
C1_TransportIsKept ==
    [][/\ server.state = "Transport" => server'.state = "Transport"
       /\ \A k \in Keys :
            peers[k].state = "Transport" => peers'[k].state = "Transport"]_vars

\* C2: a BinaryMessage for peer k is on the event stream only after a
\* PeerConnected for k earlier on the same stream.
C2_BinaryAfterPeerConnected ==
    \A i \in Emitted("BinaryMessage") :
        \E j \in Emitted("PeerConnected") :
            j < i /\ stream[j].key = stream[i].key

C2_Witness ==
    \E i \in Emitted("BinaryMessage") : stream[i].contents = <<7>>

\* C3: a SessionCreated, SessionReady, SessionActive or SessionFinished is
\* on the event stream only after a ServerConnected earlier on it.
C3_SessionAfterServerConnected ==
    \A i \in DOMAIN stream :
        stream[i].kind \in SessionEvents =>
            \E j \in Emitted("ServerConnected") : j < i

C3_Witness ==
    \E i \in DOMAIN stream : stream[i].kind \in SessionEvents

\* C4: dispatching a valid ServerHandshake Responder with the server
\* channel in Handshake (its first message written) stores Transport and
\* yields one ServerConnected carrying the configured server key; and the
\* stream never holds more than one ServerConnected.
C4_ServerConnectedOnce ==
    /\ [](Cardinality(Emitted("ServerConnected")) <= 1)
    /\ [][\A m \in ServerFrames :
            (/\ Dispatched(m)
             /\ m.type = "ServerHandshakeResponder"
             /\ m.blob = "good"
             /\ server.state = "Handshake"
             /\ server.written)
            => /\ server'.state = "Transport"
               /\ stream' = Append(stream,
                      Event("ServerConnected", ServerPublicKey, "-"))]_vars

\* A second Responder was dispatched after the one that connected.
C4_Witness ==
    \E i \in Emitted("ServerConnected") :
        \E j \in DOMAIN stream :
            j > i /\ stream[j] = Err("NotHandshakeState")


\* The PeerHandshake Initiator requests for key k among requests q.
InitiatorsFor(q, k) ==
    {i \in DOMAIN q : q[i].type = "PeerHandshakeInitiator" /\ q[i].key = k}

\* C5: connect_peer(K) with an entry for K in the registry fails with
\* PeerAlreadyExists, leaves the registry unchanged and enqueues nothing; so
\* at most one PeerHandshake Initiator for K is ever put on the outbound
\* queue.
C5_OneInitiatorPerKey ==
    /\ [](\A k \in Keys : Cardinality(InitiatorsFor(Sent, k)) <= 1)
    /\ [][\A t \in Tasks, k \in Keys :
            (connect_peer(t, k) /\ peers[k].state # "None")
            => /\ task'[t] = TaskIdle("PeerAlreadyExists")
               /\ peers' = peers
               /\ outbound' = outbound]_vars

\* C6: a PeerHandshake Initiator for K dispatched while the registry holds
\* an entry for K ends in PeerAlreadyExistsMaybeRace: no PeerConnected is
\* yielded, no reply is enqueued, the registry is unchanged.
C6_RaceLeavesStateAlone ==
    [][\A m \in PeerFrames :
          (/\ Dispatched(m)
           /\ m.type = "PeerHandshakeInitiator"
           /\ peers[m.key].state # "None")
          => /\ stream' = Append(stream, Err("PeerAlreadyExistsMaybeRace"))
             /\ outbound' = outbound
             /\ peers' = peers
             /\ loop' = LoopSelect
             /\ peersLock' = peersLock]_vars

\* The colliding Initiator was dispatched against an entry still in
\* Handshake (connect_peer(K) first), which is in place afterwards.
C6_Witness ==
    /\ \E i \in DOMAIN stream : stream[i] = Err("PeerAlreadyExistsMaybeRace")
    /\ \E k \in Keys : peers[k].state = "Handshake"

\* C7: send and send_blob (relay) to K fail with PeerNotFound when the
\* registry has no entry for K and with NotTransportState when the entry is
\* in Handshake; nothing is enqueued and the registry is unchanged.
C7_RelayNeedsTransport ==
    [][\A t \in Tasks, k \in Keys, p \in Payloads :
          (/\ send(t, k, p, NoSession) \/ send_blob(t, k, p, NoSession)
           /\ peers[k].state # "Transport")
          => /\ task'[t] = TaskIdle(IF peers[k].state = "None"
                                    THEN "PeerNotFound"
                                    ELSE "NotTransportState")
             /\ outbound' = outbound
             /\ peers' = peers
             /\ peersLock' = peersLock]_vars

C7_Witness ==
    /\ task["t1"].result = "NotTransportState"
    /\ \E k \in Keys : peers[k].state = "Handshake"


\* C8: new_session, session_ready_notify, session_active_notify,
\* register_session_connection and close_session return NotTransportState
\* and enqueue nothing whenever the server channel is not in Transport (they
\* do not abort); in Transport they go on to enqueue one Opaque
\* ServerMessage.
C8_RequestNeedsTransport ==
    [][\A t \in Tasks, m \in ClientServerMessages :
          request(t, m)
          => /\ outbound' = outbound
             /\ IF server.state = "Transport"
                THEN /\ task'[t].pc = "send"
                     /\ task'[t].req.type = "ServerMessage"
                     /\ task'[t].req.env.msg = m
                ELSE task'[t] = TaskIdle("NotTransportState")]_vars

ServerInitiators(q) ==
    {i \in DOMAIN q : q[i].type = "ServerHandshakeInitiator"}

ServerHandshakeInitiator ==
    RequestMessage("ServerHandshakeInitiator", NoKey, NoSession, NoEnvelope)

\* C9, as claimed: connect() succeeds only in the initial handshake state,
\* where it enqueues exactly one ServerHandshake Initiator; in any other
\* state (first message written, Transport) it fails with NotHandshakeState
\* and enqueues nothing.
C9_ConnectOnlyInitial ==
    /\ [](Cardinality(ServerInitiators(Sent)) <= 1)
    /\ [][\A t \in Tasks :
            connect(t)
            => /\ outbound' = outbound
               /\ IF server.state = "Handshake" /\ ~server.written
                  THEN /\ task'[t].pc = "send"
                       /\ task'[t].req = ServerHandshakeInitiator
                  ELSE /\ task'[t] = TaskIdle("NotHandshakeState")
                       /\ server' = server]_vars

\* C9, amended: as above, but a connect() that finds the channel in
\* Handshake with the first message already written fails with the Noise
\* error of write_message; NotHandshakeState is the error when the channel
\* is in Transport or absent.
C9_ConnectOnlyInitial_Amended ==
    /\ [](Cardinality(ServerInitiators(Sent)) <= 1)
    /\ [][\A t \in Tasks :
            connect(t)
            => /\ outbound' = outbound
               /\ IF server.state = "Handshake" /\ ~server.written
                  THEN /\ task'[t].pc = "send"
                       /\ task'[t].req = ServerHandshakeInitiator
                  ELSE /\ task'[t] = TaskIdle(IF server.state = "Handshake"
                                              THEN "Noise"
                                              ELSE "NotHandshakeState")
                       /\ server' = server]_vars

\* connect() was called a second time with the channel still in Handshake,
\* after the first call's Initiator was enqueued.
C9_Witness ==
    /\ task["t1"].result = "Noise"
    /\ Cardinality(ServerInitiators(Sent)) = 1

\* The PeerMessage requests for key k among requests q, in order.
IsPeerMessageFor(r, k) == r.type = "PeerMessage" /\ r.key = k
PeerMessagesFor(q, k) == SelectSeq(q, LAMBDA r : IsPeerMessageFor(r, k))

\* Envelope a was sealed before envelope b on one channel: in an earlier
\* Noise session, or in the same one under a smaller counter.
SealedBefore(a, b) ==
    a.sess < b.sess \/ (a.sess = b.sess /\ a.nonce < b.nonce)

\* What a receiver gets from the envelopes q in arrival order: its Noise
\* transport accepts an envelope only under the next counter of its
\* session (a first envelope of a later session follows a new handshake).
RECURSIVE Receive(_, _, _)
Receive(q, sess, counter) ==
    IF q = <<>> THEN <<>>
    ELSE LET e == Head(q).env
         IN IF e.sess = sess /\ e.nonce = counter
            THEN <<e.plain>> \o Receive(Tail(q), sess, counter + 1)
            ELSE IF e.sess > sess /\ e.nonce = 0
            THEN <<e.plain>> \o Receive(Tail(q), e.sess, 1)
            ELSE Receive(Tail(q), sess, counter)

InitConnected ==
    /\ server = ProtocolState("Transport", TRUE, 1, 0)
    /\ peers = [k \in Keys |-> Absent]
    /\ peersLock = Free
    /\ sessions = [k \in Keys |-> 0]
    /\ outbound = <<>>
    /\ written = <<ServerHandshakeInitiator>>
    /\ messages = <<>>
    /\ stream = <<Event("ServerConnected", ServerPublicKey, "-")>>
    /\ loop = LoopSelect
    /\ task = [t \in Tasks |-> TaskIdle(IF t = "t1" THEN "Ok" ELSE "-")]
    /\ nCalls = 0
    /\ nFrames = 0
    /\ ws_reader = "open"

\* Two client handles making server requests, the loop, and the frames of
\* the server channel.
NextSession ==
    \/ \E t \in Tasks : new_session(t)
    \/ \E t \in Tasks : session_ready_notify(t)
    \/ \E t \in Tasks : session_active_notify(t)
    \/ \E t \in Tasks : register_session_connection(t)
    \/ \E t \in Tasks : close_session(t)
    \/ \E t \in Tasks : outbound_send(t)
    \/ \E f \in ServerFrames : read_message(f)
    \/ \E io \in BOOLEAN : send_message(io)
    \/ dispatch

SpecSession == InitConnected /\ [][NextSession]_vars

\* InitConnected is a state the client reaches from construction (the input
\* counters aside).
ConnectedState ==
    /\ server = ProtocolState("Transport", TRUE, 1, 0)
    /\ peers = [k \in Keys |-> Absent]
    /\ peersLock = Free
    /\ outbound = <<>>
    /\ written = <<ServerHandshakeInitiator>>
    /\ messages = <<>>
    /\ stream = <<Event("ServerConnected", ServerPublicKey, "-")>>
    /\ loop = LoopSelect
    /\ task["t1"] = TaskIdle("Ok")

\* The Opaque ServerMessage requests among requests q, in order.
ServerMessages(q) == SelectSeq(q, LAMBDA r : r.type = "ServerMessage")

\* C11: the Opaque ServerMessage requests are on the outbound queue and the
\* transport in the order they were encrypted on the server channel (Noise
\* counter order), whichever client handles made the calls.
C11_ServerMessagesInSealOrder ==
    LET q == ServerMessages(Sent)
    IN \A i, j \in DOMAIN q : i < j => SealedBefore(q[i].env, q[j].env)

\* C12: whatever ResponseMessage is dispatched, in whatever channel state,
\* the dispatch yields one item (an event or an error) or nothing and the
\* loop is back at select! (or about to enqueue a handshake reply) to
\* service later frames and requests; the loop never aborts.
C12_DispatchNeverAborts ==
    [][\A m \in Frames :
          Dispatched(m)
          => /\ loop'.pc \in {"select", "responder_send"}
             /\ \/ stream' = stream
                \/ /\ Len(stream') = Len(stream) + 1
                   /\ SubSeq(stream', 1, Len(stream)) = stream]_vars

\* The message is well formed but of an unexpected encoding: its envelope
\* decrypts on its channel, and is a peer message marked Noop or a server
\* message not marked Blob.
UnexpectedEncoding(m) ==
    \/ /\ m.type = "PeerMessage"
       /\ peers[m.key].state # "None"
       /\ decrypt_peer_channel(peers[m.key], m.env).res = "ok"
       /\ m.env.encoding = "Noop"
    \/ /\ m.type = "ServerMessage"
       /\ server.state # "None"
       /\ decrypt_server_channel(server, m.env).res = "ok"
       /\ m.env.encoding # "Blob"

\* C13: dispatching a well-formed message of an unexpected encoding puts
\* one error item on the event stream and no event, and leaves the server
\* channel and every registry entry as they were.
C13_UnexpectedEncodingIsAnError ==
    [][\A m \in Frames :
          (Dispatched(m) /\ UnexpectedEncoding(m))
          => /\ Len(stream') = Len(stream) + 1
             /\ SubSeq(stream', 1, Len(stream)) = stream
             /\ stream'[Len(stream')].kind = "Err"
             /\ server' = server
             /\ peers' = peers
             /\ loop' = LoopSelect]_vars

\* The ServerMessage the loop gets out of frame m: the envelope decrypts on
\* the server channel, is marked Blob and its plaintext decodes.
DecryptedServerMessage(m) ==
    /\ m.type = "ServerMessage"
    /\ server.state = "Transport"
    /\ decrypt_server_channel(server, m.env).res = "ok"
    /\ m.env.encoding = "Blob"
    /\ m.env.msg # "Undecodable"

\* C14: a decrypted SessionCreated, SessionReady, SessionActive or
\* SessionFinished yields exactly one event of that name with the payload
\* the message carries; Error yields no event and one error item
\* ServerError; any other ServerMessage yields nothing.  In every case the
\* loop is back at select! and the server channel is still in Transport.
C14_ServerMessageDispatch ==
    [][\A m \in ServerFrames :
          (Dispatched(m) /\ DecryptedServerMessage(m))
          => /\ stream' =
                  IF m.env.msg \in SessionEvents
                  THEN Append(stream,
                           Item(m.env.msg, NoKey, "-", <<>>, m.session))
                  ELSE IF m.env.msg = "Error"
                  THEN Append(stream, Err("ServerError"))
                  ELSE stream
             /\ loop' = LoopSelect
             /\ server' = server
             /\ server'.state = "Transport"]_vars

\* A server Error was dispatched and a session event after it.
C14_Witness ==
    /\ server.state = "Transport"
    /\ \E i, j \in DOMAIN stream :
          /\ i < j
          /\ stream[i] = Err("ServerError")
          /\ stream[j].kind \in SessionEvents
          /\ stream[j].session = SomeSession


\* ------------------------------------------------------ transport close
\* Frames whose turn of the loop ends in an error item or in nothing while
\* the server handshake is not done: a non-binary frame, one decode()
\* rejects, a transport read error, an Opaque ServerMessage.
CloseFrames ==
    {f \in ServerFrames \cup OtherFrames :
        f.type \in {"Text", "Garbage", "WsError", "ServerMessage"}}

\* One client handle, these frames and the close of the transport.  The
\* consumer keeps polling the stream, so a turn of the loop that is ready is
\* taken, and a caller parked on the outbound queue goes on when there is
\* room.
NextClose ==
    \/ connect("t1")
    \/ new_session("t1")
    \/ outbound_send("t1")
    \/ \E f \in CloseFrames : read_message(f)
    \/ reader_end
    \/ \E io \in BOOLEAN : send_message(io)
    \/ dispatch

SpecClose ==
    /\ Init
    /\ [][NextClose]_vars
    /\ WF_vars(\E io \in BOOLEAN : send_message(io))
    /\ WF_vars(dispatch)
    /\ WF_vars(outbound_send("t1"))

\* The event stream has terminated: the generator of run has returned.
\* Its body is `loop { select!(..) }` with no break and no return, so no
\* action leads here.
StreamEnded == loop.pc = "ended"

\* C15: once the read half of the transport has yielded end-of-stream the
\* event stream eventually terminates.
C15_CloseEndsStream == (ws_reader = "ended") ~> StreamEnded


\* C16: a key that has an entry in the peer registry (Handshake or
\* Transport) has one in every later state.
C16_EntriesAreNeverEvicted ==
    [][\A k \in Keys :
          peers[k].state # "None" => peers'[k].state # "None"]_vars

\* C17: the server channel state is present (never None) in every
\* reachable state, so no request reaches its `envelope is None` branch.
C17_ServerChannelIsPresent ==
    /\ server.state # "None"
    /\ \A t \in Tasks : task[t].pc # "aborted"


\* ------------------------------------------------------------ broadcasts
\* Frames that move a registry entry: a valid PeerHandshake Initiator (the
\* peer becomes Transport) or Responder (a Handshake entry becomes
\* Transport, a Transport entry is removed).
BroadcastFrames ==
    {f \in PeerFrames : f.type # "PeerMessage" /\ f.blob = "good"}

\* Two client handles broadcasting while peers connect.
NextBroadcast ==
    \/ \E k \in Keys : connect_peer("t1", k)
    \/ \E t \in Tasks, r \in Recipients :
          broadcast(t, SomeSession, r, <<7>>)
    \/ \E t \in Tasks, r \in Recipients :
          broadcast_blob(t, SomeSession, r, <<7>>)
    \/ \E t \in Tasks : relay_broadcast_next(t)
    \/ \E t \in Tasks : outbound_send(t)
    \/ \E f \in BroadcastFrames : read_message(f)
    \/ \E io \in BOOLEAN : send_message(io)
    \/ dispatch
    \/ dispatch_locked
    \/ responder_send

SpecBroadcast == Init /\ [][NextBroadcast]_vars

\* Request r is the broadcast bc relayed to recipient key.
IsBroadcastTo(r, key, bc) ==
    /\ r.type = "PeerMessage"
    /\ r.key = key
    /\ r.session = bc.session
    /\ r.env.broadcast
    /\ r.env.encoding = bc.encoding
    /\ r.env.plain = bc.payload

\* What relay returns for an entry that is not in Transport.
RelayError(peer) ==
    IF peer.state = "None" THEN "PeerNotFound" ELSE "NotTransportState"

\* C18: broadcast and broadcast_blob relay to their recipients in list
\* order.  Every request the call enqueues is the broadcast (broadcast =
\* true, the given session, the call's encoding and payload) for the next
\* recipient of the list, so a call that returns Ok has enqueued exactly
\* one per recipient in recipient order; when relay fails for a recipient
\* (no entry, or an entry not in Transport) the call returns that error
\* with nothing enqueued for that recipient or a later one, what was
\* enqueued for the earlier ones staying on the queue.
C18_BroadcastInRecipientOrder ==
    [][\A t \in Tasks :
          LET bc == task[t].bc
              call == bc.recipients
              next == call[Len(bc.enqueued) + 1]
          IN /\ \A r \in Recipients :
                   (\/ broadcast(t, SomeSession, r, <<7>>)
                    \/ broadcast_blob(t, SomeSession, r, <<7>>))
                   => /\ outbound' = outbound
                      /\ IF r = <<>>
                         THEN task'[t] = TaskIdle("Ok")
                         ELSE IF peers[Head(r)].state = "Transport"
                         THEN /\ task'[t].pc = "send"
                              /\ task'[t].bc.recipients = r
                              /\ task'[t].bc.enqueued = <<>>
                              /\ task'[t].bc.session = SomeSession
                              /\ task'[t].bc.payload = <<7>>
                              /\ IsBroadcastTo(task'[t].req, Head(r),
                                               task'[t].bc)
                         ELSE task'[t] = TaskIdle(RelayError(peers[Head(r)]))
             /\ (outbound_send(t) /\ call # <<>>)
                => LET enq == Append(bc.enqueued, task[t].req)
                   IN /\ outbound' = Append(outbound, task[t].req)
                      /\ Len(enq) <= Len(call)
                      /\ \A i \in DOMAIN enq :
                            IsBroadcastTo(enq[i], call[i], bc)
                      /\ IF Len(enq) = Len(call)
                         THEN task'[t] = TaskIdle("Ok")
                         ELSE /\ task'[t].pc = "relay"
                              /\ task'[t].bc = [bc EXCEPT !.enqueued = enq]
             /\ relay_broadcast_next(t)
                => /\ outbound' = outbound
                   /\ Len(bc.enqueued) < Len(call)
                   /\ IF peers[next].state = "Transport"
                      THEN /\ task'[t].pc = "send"
                           /\ task'[t].bc = bc
                           /\ IsBroadcastTo(task'[t].req, next, bc)
                      ELSE task'[t] = TaskIdle(RelayError(peers[next]))]_vars

\* A broadcast to two recipients has returned Ok and both its requests are
\* on the way, in recipient order.
C18_Witness ==
    /\ \E t \in Tasks : task[t] = TaskIdle("Ok")
    /\ \E i, j \in DOMAIN Sent :
          /\ i < j
          /\ Sent[i].type = "PeerMessage" /\ Sent[i].env.broadcast
          /\ Sent[j].type = "PeerMessage" /\ Sent[j].env.broadcast
          /\ Sent[i].session = SomeSession
          /\ Sent[i].key = "k2" /\ Sent[j].key = "k1"


\* The message a dispatch step hands to handle_incoming_message.
DispatchedMessage ==
    IF loop.pc = "peers_write" THEN loop.msg
    ELSE IF messages # <<>> THEN Head(messages)
    ELSE NoResponse

\* C19: a dispatch for peer K that ends in an error item leaves the
\* registry entry of every other peer, and the server channel, as they
\* were.
C19_ErrorTouchesOnePeer ==
    [][LET m == DispatchedMessage
       IN (/\ Dispatched(m)
           /\ NeedsPeers(m)
           /\ Len(stream') = Len(stream) + 1
           /\ stream'[Len(stream')].kind = "Err")
          => /\ \A k \in Keys \ {m.key} : peers'[k] = peers[k]
             /\ server' = server]_vars

\* A dispatch for one peer ended in NotHandshakeState, which removed that
\* peer's entry, while the other peer was connected; its entry is in place.
C19_Witness ==
    \E k \in Keys, i, j \in DOMAIN stream :
        /\ i < j
        /\ stream[i] = Event("PeerConnected", k, "-")
        /\ stream[j] = Err("NotHandshakeState")
        /\ peers[k].state = "Transport"
        /\ \E o \in Keys : peers[o].state = "None"


\* A facade task, or the event loop, is suspended on outbound_tx.send: the
\* outbound queue is full and it has a request to enqueue.
SuspendedOnSend(who) ==
    /\ Len(outbound) >= OutboundCap
    /\ IF who = LoopId THEN loop.pc = "responder_send"
       ELSE task[who].pc = "send"

\* C20: nobody is suspended on enqueueing to the outbound queue while
\* holding the write lock of the peer registry (the server channel's write
\* lock is released before every await in this model and the source).
C20_NoLockAcrossSend ==
    \A who \in Tasks \cup {LoopId} :
        SuspendedOnSend(who) => peersLock # who


\* Sequence q with one element added at its tail.
Extends(q, r) == Len(r) = Len(q) + 1 /\ SubSeq(r, 1, Len(q)) = q

\* C21: FIFO per source.  The outbound queue only grows at its tail and
\* the loop writes its head to the transport, after what it wrote before;
\* the decoded-message queue only grows at its tail, by the frame just
\* read, and the loop dispatches its head; the event stream only grows at
\* its tail, by the item of the turn of the loop that just completed.
C21_FifoPerSource ==
    [][/\ outbound' # outbound
          => \/ Extends(outbound, outbound')
             \/ /\ outbound # <<>>
                /\ outbound' = Tail(outbound)
                /\ \/ written' = Append(written, Head(outbound))
                   \/ /\ written' = written
                      /\ stream' = Append(stream, Err("Transport"))
       /\ written' # written
          => /\ outbound # <<>>
             /\ outbound' = Tail(outbound)
             /\ written' = Append(written, Head(outbound))
       /\ messages' # messages
          => \/ Extends(messages, messages') /\ nFrames' = nFrames + 1
             \/ /\ messages # <<>>
                /\ messages' = Tail(messages)
                /\ \/ loop'.pc = "peers_write" /\ loop'.msg = Head(messages)
                   \/ handle_incoming_message(Head(messages))
       /\ loop.pc = "peers_write" /\ loop' # loop
          => handle_incoming_message(loop.msg)
       /\ stream' # stream => Extends(stream, stream')]_vars

\* Two handshake Initiators were read, dispatched and answered: the events
\* are on the stream and the replies on the transport in the order the
\* frames were read.
C21_Witness ==
    /\ Len(stream) = 2 /\ Len(written) = 2
    /\ stream[1].kind = "PeerConnected" /\ stream[2].kind = "PeerConnected"
    /\ stream[1].key # stream[2].key
    /\ written[1].key = stream[1].key /\ written[2].key = stream[2].key


\* ------------------------------------------------------ fair scheduling
\* SpecPeers under fair scheduling: the consumer keeps polling the stream,
\* so a turn of the loop that can be taken is taken, a handler waiting for
\* the registry gets it once it is free, and a caller or handler parked on
\* the outbound queue goes on when there is room.
SpecPeersFair ==
    /\ Init
    /\ [][NextPeers]_vars
    /\ WF_vars(\E io \in BOOLEAN : send_message(io))
    /\ WF_vars(dispatch)
    /\ WF_vars(dispatch_locked)
    /\ WF_vars(responder_send)
    /\ WF_vars(outbound_send("t1"))

\* The loop is suspended inside a turn, enqueueing a handshake reply on the
\* outbound queue or a decoded frame on the decoded-message queue.
LoopEnqueueing == loop.pc \in {"responder_send", "message_send"}

\* C22: whenever the loop is suspended enqueueing on the outbound queue or
\* on the decoded-message queue, the enqueue eventually completes and the
\* loop is back at select!.
C22_LoopEnqueueCompletes == LoopEnqueueing ~> (loop.pc = "select")


\* ------------------------------------------------- a connected peer
\* The reply peer_handshake_responder enqueues for key k.
ResponderReply(k) ==
    RequestMessage("PeerHandshakeResponder", k, NoSession, NoEnvelope)

\* The client once peer k1 has connected to it: the valid PeerHandshake
\* Initiator from k1 is dispatched, the registry holds k1 in Transport, the
\* reply is on the outbound queue (not yet written) and PeerConnected is
\* yielded.  The input counters count from here.
InitPeerConnected ==
    /\ server = ProtocolState("Handshake", FALSE, 1, 0)
    /\ peers = [k \in Keys |->
                  IF k = "k1" THEN ProtocolState("Transport", TRUE, 1, 0)
                  ELSE Absent]
    /\ peersLock = Free
    /\ sessions = [k \in Keys |-> IF k = "k1" THEN 1 ELSE 0]
    /\ outbound = <<ResponderReply("k1")>>
    /\ written = <<>>
    /\ messages = <<>>
    /\ stream = <<Event("PeerConnected", "k1", "-")>>
    /\ loop = LoopSelect
    /\ task = [t \in Tasks |-> TaskIdle("-")]
    /\ nCalls = 0
    /\ nFrames = 0
    /\ ws_reader = "open"

\* The peer registry's callers and frames, from there.
SpecRelay == InitPeerConnected /\ [][NextPeers]_vars

\* InitPeerConnected is a state the client reaches from construction (the
\* input counters aside).
PeerConnectedState ==
    /\ server = ProtocolState("Handshake", FALSE, 1, 0)
    /\ peers = [k \in Keys |->
                  IF k = "k1" THEN ProtocolState("Transport", TRUE, 1, 0)
                  ELSE Absent]
    /\ peersLock = Free
    /\ sessions = [k \in Keys |-> IF k = "k1" THEN 1 ELSE 0]
    /\ outbound = <<ResponderReply("k1")>>
    /\ written = <<>>
    /\ messages = <<>>
    /\ stream = <<Event("PeerConnected", "k1", "-")>>
    /\ loop = LoopSelect
    /\ task = [t \in Tasks |-> TaskIdle("-")]
    /\ ws_reader = "open"

\* Facade task t and the event loop wait for each other: t waits for space
\* on the full outbound queue holding the write lock of the peer registry,
\* the loop waits for that lock and so does not drain the queue.
CircularWait(t) ==
    /\ task[t].pc = "send"
    /\ peersLock = t
    /\ Len(outbound) >= OutboundCap
    /\ loop.pc = "peers_write"

\* C23: no reachable state has a facade task and the event loop in a
\* circular wait.
C23_NoCircularWait == \A t \in Tasks : ~CircularWait(t)


\* Request r is a PeerMessage for k sealed in k's current Noise session.
SealedInCurrentSession(r, k) ==
    IsPeerMessageFor(r, k) /\ r.env.sess >= peers[k].sess

Produced ==
    {Sent[i] : i \in DOMAIN Sent} \cup {task[t].req : t \in Tasks}

\* The receiving side's entry for the session an envelope was sealed in.
ReceiverOf(envelope) ==
    ProtocolState("Transport", TRUE, envelope.sess, envelope.nonce)

\* C25: every SealedEnvelope encrypt_peer_channel produces has length =
\* plaintext length + TAGLEN and a payload buffer of exactly that size, and
\* decrypt_peer_channel applied to it returns a buffer of exactly
\* length - TAGLEN bytes (the plaintext).
C25_SealedLength ==
    \A r \in Produced :
        r.type = "PeerMessage"
        => LET d == decrypt_peer_channel(ReceiverOf(r.env), r.env)
           IN /\ r.env.length = Len(r.env.plain) + TAGLEN
              /\ r.env.buf = r.env.length
              /\ d.res = "ok"
              /\ Len(d.contents) = r.env.length - TAGLEN
              /\ d.contents = r.env.plain

\* Envelopes for an empty and for a non-empty plaintext were produced.
C25_Witness ==
    /\ \E r \in Produced : r.type = "PeerMessage" /\ r.env.plain = <<>>
    /\ \E r \in Produced : r.type = "PeerMessage" /\ r.env.plain = <<7>>

\* C26: decrypt_peer_channel is total on what the loop receives: for
\* every envelope dispatched for a peer in Transport it returns plaintext
\* or an error; it does not panic on an out-of-range slice or an underflow.
C26_DecryptIsTotal ==
    [][LET m == DispatchedMessage
       IN (/\ Dispatched(m)
           /\ m.type = "PeerMessage"
           /\ peers[m.key].state = "Transport")
          => decrypt_peer_channel(peers[m.key], m.env).res
                \in {"ok", "err"}]_vars

====
